---- MODULE Spec2Model ----
(***************************************************************************)
(* State-machine model of the anchor-amm program: the Config account       *)
(* written by Initialize::init, and the Deposit::deposit and               *)
(* Withdraw::withdraw instruction handlers acting on the token ledger      *)
(* (vaults, user token accounts, LP mint).                                 *)
(*                                                                         *)
(* Each instruction is one atomic action: the handler runs over a working  *)
(* copy of the ledger, call by call, and the result is kept only when the  *)
(* handler returns Ok.  The handlers are modelled as run over accounts     *)
(* that passed the account constraints of their Accounts struct.           *)
(***************************************************************************)
EXTENDS Integers, Sequences, FiniteSets, TLC

\* ------------------------------------------------------------------ bounds

\* Starting balance of each user, in X and in Y.
InitBal == 2
\* Largest LP amount a caller asks for (amount of deposit / withdraw).
MaxShares == 2
\* Largest deposit limit (max_x, max_y).
MaxArg == 2
\* Largest withdraw floor (min_x, min_y).
MaxFloor == 1
\* Cap on the LP supply the model explores.
MaxSupply == 3
\* Width in bits of an amount; stands for the 64 bits of a u64.
AmountBits == 3

\* --------------------------------------------------------------- principals

Users == {"u1", "u2"}
\* The Config PDA: owner of both vaults and mint authority of the LP mint.
Pool == "config"
\* Option<Pubkey>::None
None == "None"
Seeds == {1}
Fees == {30}
Authorities == {None, "u1"}
Accounts == Users \cup {Pool}

VARIABLES
    config,   \* the Config account (state/config.rs)
    ledger,   \* token balances: x, y per owner (the pool's are the vaults), lp per user, lp supply
    last      \* the last instruction: its arguments, result and the state it ran from

vars == <<config, ledger, last>>

\* ------------------------------------------------------------ Config account

\* The Config account before Initialize::init has run (account not created).
NoConfig ==
    [initialized |-> FALSE, seed |-> 0, authority |-> None, mint_x |-> "X",
     mint_y |-> "Y", lp_bump |-> 0, config_bump |-> 0, fee |-> 0, locked |-> FALSE]

\* Initialize::init: set_inner(Config{...}); no argument is validated.
init(seed, fee, authority) ==
    [initialized |-> TRUE, seed |-> seed, authority |-> authority, mint_x |-> "X",
     mint_y |-> "Y", lp_bump |-> 255, config_bump |-> 255, fee |-> fee,
     locked |-> FALSE]

\* -------------------------------------------------------------------- ledger

\* vault_x / vault_y: the pool's token accounts (associated_token::authority = config).
vault_x(l) == l.x[Pool]
vault_y(l) == l.y[Pool]

InitLedger ==
    [x |-> [a \in Accounts |-> IF a = Pool THEN 0 ELSE InitBal],
     y |-> [a \in Accounts |-> IF a = Pool THEN 0 ELSE InitBal],
     lp |-> [u \in Users |-> 0],
     supply |-> 0]

\* Result of one ledger call.
CallOk(call, l) == [ok |-> TRUE, call |-> call, err |-> "Ok", l |-> l]
CallErr(call, err, l) == [ok |-> FALSE, call |-> call, err |-> err, l |-> l]

\* Token program transfer: the authority must own the source account and the
\* source must hold the amount.  Token accounts are named by their owner, so
\* the vaults are the accounts of Pool.
transfer_checked(l, asset, from, to, authority, amount) ==
    IF authority # from THEN CallErr("transfer", "OwnerMismatch", l)
    ELSE IF l[asset][from] < amount THEN CallErr("transfer", "InsufficientFunds", l)
    ELSE CallOk("transfer",
                [l EXCEPT ![asset] = [@ EXCEPT ![from] = @ - amount, ![to] = @ + amount]])

\* Token program mint_to: only the mint authority (the pool) may mint.
mint_to(l, to, authority, amount) ==
    IF authority # Pool THEN CallErr("mint", "OwnerMismatch", l)
    ELSE CallOk("mint", [l EXCEPT !.lp[to] = @ + amount, !.supply = @ + amount])

\* Token program burn: the authority must own the account and it must hold the amount.
burn(l, from, authority, amount) ==
    IF authority # from THEN CallErr("burn", "OwnerMismatch", l)
    ELSE IF l.lp[from] < amount THEN CallErr("burn", "InsufficientFunds", l)
    ELSE CallOk("burn", [l EXCEPT !.lp[from] = @ - amount, !.supply = @ - amount])

\* ----------------------------------------------------- constant-product curve

\* Division rounding up, for b > 0.
CeilDiv(a, b) == (a + b - 1) \div b

\* Result of a curve call: Ok(XYAmounts{x, y}) or Err(CurveError).
CurveOk(x, y) == [ok |-> TRUE, x |-> x, y |-> y]
CurveErr == [ok |-> FALSE, x |-> 0, y |-> 0]

\* Largest amount: u64::MAX at the width explored.
U64_MAX == 2^AmountBits - 1

\* ConstantProduct::xy_deposit_amounts_from_l(x, y, l, a, precision): the
\* amounts of X and Y owed for a LP shares, rounded up; an error when l = 0
\* or when an amount does not fit the width.
xy_deposit_amounts_from_l(x, y, l, a, precision) ==
    IF l = 0 THEN CurveErr
    ELSE IF CeilDiv(x * a, l) > U64_MAX \/ CeilDiv(y * a, l) > U64_MAX THEN CurveErr
    ELSE CurveOk(CeilDiv(x * a, l), CeilDiv(y * a, l))

\* ConstantProduct::xy_withdraw_amounts_from_l(x, y, l, a, precision): the
\* amounts of X and Y paid for a LP shares, rounded down; an error when l = 0
\* or a > l (which covers an amount that does not fit the width: a <= l
\* keeps each amount at or below its reserve).
xy_withdraw_amounts_from_l(x, y, l, a, precision) ==
    IF l = 0 \/ a > l THEN CurveErr
    ELSE CurveOk((x * a) \div l, (y * a) \div l)

\* ------------------------------------------------------------------ handlers

\* What a handler hands back: its Result, the working ledger it leaves, the
\* amounts it computed and the ledger calls it made, in order.
Ret(err, l, x, y, calls) == [err |-> err, l |-> l, x |-> x, y |-> y, calls |-> calls]
Call(r) == [call |-> r.call, err |-> r.err]

\* Faulty variant of deposit_token: the two arms of the is_x match are exchanged.
deposit_token_inverted(l, user, is_x, amount) ==
    transfer_checked(l, IF is_x THEN "y" ELSE "x", user, Pool, user, amount)

\* Deposit::deposit_token: transfer_checked from the user's account to the
\* vault, authority = user.
deposit_token(l, user, is_x, amount) ==
    transfer_checked(l, IF is_x THEN "x" ELSE "y", user, Pool, user, amount)

\* Deposit::mint_lp_tokens: mint_to the user's LP account, authority = config
\* (signed with the config seeds).
mint_lp_tokens(l, user, amount) == mint_to(l, user, Pool, amount)

\* Faulty variant of deposit_amounts: the first deposit takes (max_y, max_x).
deposit_amounts_swapped_xy(l, amount, max_x, max_y) ==
    IF l.supply = 0 /\ vault_x(l) = 0 /\ vault_y(l) = 0
    THEN CurveOk(max_y, max_x)
    ELSE xy_deposit_amounts_from_l(vault_x(l), vault_y(l), l.supply, amount, 6)

\* Faulty variant of deposit_amounts: the curve is called with the LP supply
\* and the requested amount in each other's place.
deposit_amounts_swapped_la(l, amount, max_x, max_y) ==
    IF l.supply = 0 /\ vault_x(l) = 0 /\ vault_y(l) = 0
    THEN CurveOk(max_x, max_y)
    ELSE xy_deposit_amounts_from_l(vault_x(l), vault_y(l), amount, l.supply, 6)

\* Deposit::deposit, the `match` that picks the amounts: (max_x, max_y) when
\* the LP supply and both vaults are zero, the curve's amounts otherwise.

deposit_amounts(l, amount, max_x, max_y) ==
    IF l.supply = 0 /\ vault_x(l) = 0 /\ vault_y(l) = 0
    THEN CurveOk(max_x, max_y)
    ELSE xy_deposit_amounts_from_l(vault_x(l), vault_y(l), l.supply, amount, 6)

\* Faulty variant of deposit_calls: the X amount is minted instead of amount.
deposit_calls_mint_x(l, user, amount, x, y) ==
    LET r1 == deposit_token(l, user, TRUE, x)
        r2 == deposit_token(r1.l, user, FALSE, y)
        r3 == mint_lp_tokens(r2.l, user, x)
    IN
    IF ~r1.ok THEN Ret(r1.err, r1.l, x, y, <<Call(r1)>>)
    ELSE IF ~r2.ok THEN Ret(r2.err, r2.l, x, y, <<Call(r1), Call(r2)>>)
    ELSE IF ~r3.ok THEN Ret(r3.err, r3.l, x, y, <<Call(r1), Call(r2), Call(r3)>>)
    ELSE Ret("Ok", r3.l, x, y, <<Call(r1), Call(r2), Call(r3)>>)

\* Faulty variant of deposit_calls: the calls' results are dropped (no `?`).
deposit_calls_unchecked(l, user, amount, x, y) ==
    LET r1 == deposit_token(l, user, TRUE, x)
        r2 == deposit_token(r1.l, user, FALSE, y)
        r3 == mint_lp_tokens(r2.l, user, amount)
    IN Ret("Ok", r3.l, x, y, <<Call(r1), Call(r2), Call(r3)>>)

\* Deposit::deposit, the three ledger calls, each followed by `?`.
deposit_calls(l, user, amount, x, y) ==
    LET r1 == deposit_token(l, user, TRUE, x)
        r2 == deposit_token(r1.l, user, FALSE, y)
        r3 == mint_lp_tokens(r2.l, user, amount)
    IN
    IF ~r1.ok THEN Ret(r1.err, r1.l, x, y, <<Call(r1)>>)
    ELSE IF ~r2.ok THEN Ret(r2.err, r2.l, x, y, <<Call(r1), Call(r2)>>)
    ELSE IF ~r3.ok THEN Ret(r3.err, r3.l, x, y, <<Call(r1), Call(r2), Call(r3)>>)
    ELSE Ret("Ok", r3.l, x, y, <<Call(r1), Call(r2), Call(r3)>>)

\* Faulty variant of deposit: the lock is not looked at.
deposit_unguarded(cfg, l, user, amount, max_x, max_y) ==
    IF amount = 0 THEN Ret("InvalidAmount", l, 0, 0, <<>>)
    ELSE
      LET amounts == deposit_amounts(l, amount, max_x, max_y) IN
      IF ~amounts.ok THEN Ret("Panic", l, 0, 0, <<>>)
      ELSE deposit_calls(l, user, amount, amounts.x, amounts.y)

\* Deposit::deposit(amount, max_x, max_y).
deposit(cfg, l, user, amount, max_x, max_y) ==
    IF cfg.locked # FALSE THEN Ret("PoolLocked", l, 0, 0, <<>>)
    ELSE IF amount = 0 THEN Ret("InvalidAmount", l, 0, 0, <<>>)
    ELSE
      LET amounts == deposit_amounts(l, amount, max_x, max_y) IN
      IF ~amounts.ok THEN Ret("Panic", l, 0, 0, <<>>)   \* .unwrap() of an Err
      ELSE deposit_calls(l, user, amount, amounts.x, amounts.y)

\* Withdraw::withdraw_token: transfer_checked from the vault to the user's
\* account, authority = user.
withdraw_token(l, user, is_x, amount) ==
    transfer_checked(l, IF is_x THEN "x" ELSE "y", Pool, user, user, amount)

\* Withdraw::burn_lp_tokens: burn from the user's LP account, authority = user.
burn_lp_tokens(l, user, amount) == burn(l, user, user, amount)

\* Faulty variant of withdraw_calls: the calls' results are dropped (no `?`).
withdraw_calls_unchecked(l, user, amount, x, y) ==
    LET r1 == withdraw_token(l, user, TRUE, x)
        r2 == withdraw_token(r1.l, user, FALSE, y)
        r3 == burn_lp_tokens(r2.l, user, amount)
    IN Ret("Ok", r3.l, x, y, <<Call(r1), Call(r2), Call(r3)>>)

\* Withdraw::withdraw, the three ledger calls, each followed by `?`.
withdraw_calls(l, user, amount, x, y) ==
    LET r1 == withdraw_token(l, user, TRUE, x)
        r2 == withdraw_token(r1.l, user, FALSE, y)
        r3 == burn_lp_tokens(r2.l, user, amount)
    IN
    IF ~r1.ok THEN Ret(r1.err, r1.l, x, y, <<Call(r1)>>)
    ELSE IF ~r2.ok THEN Ret(r2.err, r2.l, x, y, <<Call(r1), Call(r2)>>)
    ELSE IF ~r3.ok THEN Ret(r3.err, r3.l, x, y, <<Call(r1), Call(r2), Call(r3)>>)
    ELSE Ret("Ok", r3.l, x, y, <<Call(r1), Call(r2), Call(r3)>>)

\* Withdraw::withdraw(amount, min_x, min_y).
withdraw(cfg, l, user, amount, min_x, min_y) ==
    IF cfg.locked # FALSE THEN Ret("PoolLocked", l, 0, 0, <<>>)
    ELSE IF amount = 0 THEN Ret("InvalidAmount", l, 0, 0, <<>>)
    ELSE IF ~(min_x # 0 \/ min_y # 0) THEN Ret("InvalidAmount", l, 0, 0, <<>>)
    ELSE
      LET result == xy_withdraw_amounts_from_l(vault_x(l), vault_y(l), l.supply, amount, 6)
      IN
      IF ~result.ok THEN Ret("Panic", l, 0, 0, <<>>)   \* .unwrap() of an Err
      ELSE withdraw_calls(l, user, amount, result.x, result.y)

\* set_lock(caller, new_value): only the pool's admin may toggle the lock.
set_lock(cfg, caller, new_value) ==
    IF cfg.authority = None \/ caller # cfg.authority
    THEN [err |-> "Unauthorized", cfg |-> cfg]
    ELSE [err |-> "Ok", cfg |-> [cfg EXCEPT !.locked = new_value]]

\* The host runtime commits an instruction's writes only when it returns Ok;
\* an Err or a panic discards them.
Commit(pre, res) == IF res.err = "Ok" THEN res.l ELSE pre

\* ------------------------------------------------------------------- actions

Record(op, user, amount, a, b, res) ==
    [op |-> op, user |-> user, amount |-> amount, a |-> a, b |-> b,
     err |-> res.err, x |-> res.x, y |-> res.y, calls |-> res.calls,
     pre |-> ledger, pre_config |-> config]

NoRes == Ret("Ok", InitLedger, 0, 0, <<>>)

Init ==
    /\ config = NoConfig
    /\ ledger = InitLedger
    /\ last = [op |-> "none", user |-> "u1", amount |-> 0, a |-> 0, b |-> 0,
               err |-> "Ok", x |-> 0, y |-> 0, calls |-> <<>>,
               pre |-> InitLedger, pre_config |-> NoConfig]

\* Instruction initialize: creates the Config account (the `init` constraint
\* rejects an account that already exists).
Initialize ==
    \E seed \in Seeds, fee \in Fees, authority \in Authorities :
        /\ ~config.initialized
        /\ config' = init(seed, fee, authority)
        /\ ledger' = ledger
        /\ last' = Record("initialize", "u1", 0, 0, 0, NoRes)

\* Instruction deposit, signed by user.  The LP supply explored is capped at
\* MaxSupply.
Deposit ==
    \E user \in Users, amount \in 0..MaxShares, max_x \in 0..MaxArg, max_y \in 0..MaxArg :
        LET res == deposit(config, ledger, user, amount, max_x, max_y) IN
        /\ config.initialized
        /\ Commit(ledger, res).supply <= MaxSupply
        /\ ledger' = Commit(ledger, res)
        /\ config' = config
        /\ last' = Record("deposit", user, amount, max_x, max_y, res)

\* Instruction withdraw, signed by user.
Withdraw ==
    \E user \in Users, amount \in 0..MaxShares, min_x \in 0..MaxFloor, min_y \in 0..MaxFloor :
        LET res == withdraw(config, ledger, user, amount, min_x, min_y) IN
        /\ config.initialized
        /\ ledger' = Commit(ledger, res)
        /\ config' = config
        /\ last' = Record("withdraw", user, amount, min_x, min_y, res)

Next == Initialize \/ Deposit \/ Withdraw

Spec == Init /\ [][Next]_vars

\* Instruction set_lock, signed by caller.
SetLock ==
    \E caller \in Users, new_value \in BOOLEAN :
        LET res == set_lock(config, caller, new_value) IN
        /\ config.initialized
        /\ config' = res.cfg
        /\ ledger' = ledger
        /\ last' = Record("set_lock", caller, 0, 0, 0,
                          Ret(res.err, ledger, 0, 0, <<>>))

NextLock == Initialize \/ Deposit \/ Withdraw \/ SetLock

\* The program together with the lock toggle.
SpecLock == Init /\ [][NextLock]_vars

\* ------------------------------------------------ the lock toggle in the code

\* A set_lock instruction sent to the program: the #[program] module lists
\* initialize only and context/ holds no handler that writes Config.locked
\* or reads Config.authority, so the dispatcher rejects the instruction and
\* no account is written, whoever the caller is.
set_lock_dispatch(cfg, caller, new_value) ==
    [err |-> "InstructionFallbackNotFound", cfg |-> cfg]

\* Instruction set_lock as the program answers it.
SetLockCall ==
    \E caller \in Users, new_value \in BOOLEAN :
        LET res == set_lock_dispatch(config, caller, new_value) IN
        /\ config.initialized
        /\ config' = res.cfg
        /\ ledger' = ledger
        /\ last' = Record("set_lock", caller, IF new_value THEN 1 ELSE 0, 0, 0,
                          Ret(res.err, ledger, 0, 0, <<>>))

NextProgram == Initialize \/ Deposit \/ Withdraw \/ SetLockCall

\* The program's handlers together with the set_lock calls it receives.
SpecProgram == Init /\ [][NextProgram]_vars

\* ------------------------------------------------- initialize, with its inputs

\* The (mint_x, mint_y) accounts a caller hands to initialize.
MintPairs == {<<"X", "Y">>, <<"Y", "X">>, <<"X", "Z">>}
\* The fee argument, a u16.
InitFees == {30, 9999, 10000, 65535}

\* Address of the Config account: seeds = [b"config", seed.to_le_bytes()].
\* Program-derived addresses of different seed lists are different.
config_address(seed) == <<"config", seed>>

\* The pool identity of the specification: (asset_x, asset_y, seed).
pool_identity(cfg) == <<cfg.mint_x, cfg.mint_y, cfg.seed>>

\* Initialize::init with the mint accounts of the Initialize struct: every
\* value is stored as given.
init_accounts(mint_x, mint_y, seed, fee, authority) ==
    [init(seed, fee, authority) EXCEPT !.mint_x = mint_x, !.mint_y = mint_y]

\* Instruction initialize over the Config account cfg found at
\* config_address(seed): the `init` constraint creates the account and fails
\* when an account already lives at that address; then Initialize::init runs.
initialize_ix(cfg, mint_x, mint_y, seed, fee, authority) ==
    IF cfg.initialized
    THEN [err |-> "AccountAlreadyInUse", cfg |-> cfg]
    ELSE [err |-> "Ok", cfg |-> init_accounts(mint_x, mint_y, seed, fee, authority)]

\* Instruction initialize with any mints, seed, fee and authority.  config is
\* the account at the address the call derives; last.calls holds the Config
\* the call asked for.
InitializeIx ==
    \E pair \in MintPairs, seed \in Seeds, fee \in InitFees, authority \in Authorities :
        LET res == initialize_ix(config, pair[1], pair[2], seed, fee, authority) IN
        /\ config.initialized => config_address(seed) = config_address(config.seed)
        /\ config' = res.cfg
        /\ ledger' = ledger
        /\ last' = Record("initialize", "u1", 0, 0, 0,
                          Ret(res.err, ledger, 0, 0,
                              <<init_accounts(pair[1], pair[2], seed, fee, authority)>>))

NextInit == InitializeIx

\* Initialize calls alone, over every input.
SpecInit == Init /\ [][NextInit]_vars

\* ------------------------------------------- transfers made outside the program

\* A holder sends amount of X or Y straight to a vault with the token
\* program's transfer: the vaults are ordinary token accounts of the pool and
\* take a transfer from anyone.
Donate ==
    \E user \in Users, asset \in {"x", "y"}, amount \in 1..MaxArg :
        LET r == transfer_checked(ledger, asset, user, Pool, user, amount) IN
        /\ config.initialized
        /\ r.ok
        /\ ledger' = r.l
        /\ config' = config
        /\ last' = Record("donate", user, amount, 0, 0,
                          Ret("Ok", r.l, 0, 0, <<Call(r)>>))

NextDonate == Initialize \/ Deposit \/ Withdraw \/ Donate

\* The program's handlers together with direct transfers into the vaults.
SpecDonate == Init /\ [][NextDonate]_vars

\* ------------------------------------------------- the LP mint account

\* Address of the LP mint that initialize creates:
\* seeds = [b"lp_mint", config.key()].
lp_mint_address_init(config_key) == <<"lp_mint", config_key>>

\* Address the Deposit accounts require of lp_mint: seeds = [b"lp", config.key()].
lp_mint_address_deposit(config_key) == <<"lp", config_key>>

\* Address the Withdraw accounts require of lp_mint: seeds = [b"lp", config.key()].
lp_mint_address_withdraw(config_key) == <<"lp", config_key>>

\* The mint accounts at addresses derived from the program: the one initialize
\* created.  Only the program can create an account at such an address, and
\* initialize is its only instruction that creates one.
MintAccounts(cfg) ==
    IF cfg.initialized THEN {lp_mint_address_init(config_address(cfg.seed))} ELSE {}

\* The accounts a caller may hand in as lp_mint.
LpMintCandidates(cfg) ==
    {lp_mint_address_init(config_address(cfg.seed)),
     lp_mint_address_deposit(config_address(cfg.seed))}

\* Validation of the lp_mint account: it must hold a Mint
\* (InterfaceAccount<Mint>) and its address must be the one the seeds
\* constraint derives.
lp_mint_constraint(cfg, lp_mint, required) ==
    IF lp_mint \notin MintAccounts(cfg) THEN "AccountNotInitialized"
    ELSE IF lp_mint # required THEN "ConstraintSeeds"
    ELSE "Ok"

\* Instruction deposit: the Deposit accounts are validated, then
\* Deposit::deposit runs.
deposit_ix(cfg, l, user, lp_mint, amount, max_x, max_y) ==
    LET v == lp_mint_constraint(cfg, lp_mint,
                                lp_mint_address_deposit(config_address(cfg.seed)))
    IN IF v # "Ok" THEN Ret(v, l, 0, 0, <<>>)
       ELSE deposit(cfg, l, user, amount, max_x, max_y)

\* Instruction withdraw: the Withdraw accounts are validated, then
\* Withdraw::withdraw runs.
withdraw_ix(cfg, l, user, lp_mint, amount, min_x, min_y) ==
    LET v == lp_mint_constraint(cfg, lp_mint,
                                lp_mint_address_withdraw(config_address(cfg.seed)))
    IN IF v # "Ok" THEN Ret(v, l, 0, 0, <<>>)
       ELSE withdraw(cfg, l, user, amount, min_x, min_y)

\* Instruction deposit with the lp_mint account of the caller's choice;
\* last.lp_mint is the account handed in.
DepositIx ==
    \E user \in Users, lp_mint \in LpMintCandidates(config),
       amount \in 0..MaxShares, max_x \in 0..MaxArg, max_y \in 0..MaxArg :
        LET res == deposit_ix(config, ledger, user, lp_mint, amount, max_x, max_y) IN
        /\ config.initialized
        /\ Commit(ledger, res).supply <= MaxSupply
        /\ ledger' = Commit(ledger, res)
        /\ config' = config
        /\ last' = [lp_mint |-> lp_mint] @@ Record("deposit", user, amount, max_x, max_y, res)

\* Instruction withdraw with the lp_mint account of the caller's choice.
WithdrawIx ==
    \E user \in Users, lp_mint \in LpMintCandidates(config),
       amount \in 0..MaxShares, min_x \in 0..MaxFloor, min_y \in 0..MaxFloor :
        LET res == withdraw_ix(config, ledger, user, lp_mint, amount, min_x, min_y) IN
        /\ config.initialized
        /\ ledger' = Commit(ledger, res)
        /\ config' = config
        /\ last' = [lp_mint |-> lp_mint] @@ Record("withdraw", user, amount, min_x, min_y, res)

NextAccounts == Initialize \/ DepositIx \/ WithdrawIx

\* The instructions with their account validation.
SpecAccounts == Init /\ [][NextAccounts]_vars

\* -------------------------------------------------------------------- claims

IsUserOp == last.op \in {"deposit", "withdraw"}
Unchanged == ledger = last.pre /\ config = last.pre_config
\* What the last instruction moved into the vaults and added to the LP supply.
MovedInX == vault_x(ledger) - vault_x(last.pre)
MovedInY == vault_y(ledger) - vault_y(last.pre)
Minted == ledger.supply - last.pre.supply
Max(a, b) == IF a >= b THEN a ELSE b
\* The last instruction got as far as computing its amounts and calling the ledger.
Computed == Len(last.calls) > 0
\* The last instruction ran on a pool with both reserves and the LP supply positive.
FundedPre == vault_x(last.pre) > 0 /\ vault_y(last.pre) > 0 /\ last.pre.supply > 0

\* C1: a deposit or withdraw on a locked pool returns PoolLocked and leaves
\* the ledger and the pool record as they were.
C1_LockEnforcement ==
    (IsUserOp /\ last.pre_config.locked) => (last.err = "PoolLocked" /\ Unchanged)

\* C1 witness: a deposit with valid, funded arguments was refused on a locked pool.
C1_Witness ==
    /\ last.op = "deposit" /\ last.pre_config.locked /\ last.err = "PoolLocked"
    /\ last.amount > 0 /\ last.a > 0 /\ last.b > 0
    /\ ledger.x[last.user] >= last.a /\ ledger.y[last.user] >= last.b

\* C2: a deposit into a funded pool (positive limits, the caller able to pay)
\* whose needed_x exceeds max_x or whose needed_y exceeds max_y fails with
\* SlippageExceeded, and no successful deposit moves more than max_x of X or
\* max_y of Y into the vaults.
C2_DepositSlippageGuard ==
    (last.op = "deposit" /\ FundedPre /\ last.a > 0 /\ last.b > 0) =>
        /\ (Computed /\ (last.x > last.a \/ last.y > last.b)
               /\ last.pre.x[last.user] >= last.x /\ last.pre.y[last.user] >= last.y)
              => last.err = "SlippageExceeded"
        /\ last.err = "Ok" => (MovedInX <= last.a /\ MovedInY <= last.b)

\* C3: a withdraw whose out_x is below min_x or whose out_y is below min_y
\* fails with SlippageExceeded, and a successful withdraw pays at least min_x
\* and min_y.
C3_WithdrawSlippageGuard ==
    (last.op = "withdraw" /\ FundedPre) =>
        /\ (Computed /\ (last.x < last.a \/ last.y < last.b)) => last.err = "SlippageExceeded"
        /\ last.err = "Ok" => (-MovedInX >= last.a /\ -MovedInY >= last.b)

\* C4: in every reachable state either both reserves and the LP supply are
\* positive, or all three are zero.
C4_ReserveSupplyInvariant ==
    \/ vault_x(ledger) > 0 /\ vault_y(ledger) > 0 /\ ledger.supply > 0
    \/ vault_x(ledger) = 0 /\ vault_y(ledger) = 0 /\ ledger.supply = 0

\* C5: a successful deposit or withdraw from L_pre > 0 to L_post > 0 does not
\* lower the reserves backing each share:
\* reserve_post * L_pre >= reserve_pre * L_post, for x and for y.
C5_LpMonotonicity ==
    (IsUserOp /\ last.err = "Ok" /\ last.pre.supply > 0 /\ ledger.supply > 0) =>
        /\ vault_x(ledger) * last.pre.supply >= vault_x(last.pre) * ledger.supply
        /\ vault_y(ledger) * last.pre.supply >= vault_y(last.pre) * ledger.supply

\* C5 witness: a successful proportional deposit whose X amount was rounded.
C5_Witness ==
    /\ last.op = "deposit" /\ last.err = "Ok" /\ last.pre.supply > 0
    /\ (vault_x(last.pre) * last.amount) % last.pre.supply # 0
    /\ vault_x(last.pre) # vault_y(last.pre)

C7_DepositAmountValidation ==
    (last.op = "deposit" /\ ~last.pre_config.locked
        /\ (last.amount = 0 \/ last.a = 0 \/ last.b = 0))
    => (last.err = "InvalidAmount" /\ Unchanged)

C10_RoundTrip ==
    [][ ( /\ last.op = "deposit" /\ last.err = "Ok" /\ FundedPre
          /\ last.x <= last.a /\ last.y <= last.b
          /\ last'.op = "withdraw" /\ last'.user = last.user
          /\ last'.amount = last.amount
          /\ last'.a + last'.b > 0 /\ last'.a <= last'.x /\ last'.b <= last'.y )
        => ( /\ last'.err = "Ok"
             /\ vault_x(ledger) - vault_x(ledger') = last'.x
             /\ vault_y(ledger) - vault_y(ledger') = last'.y
             /\ last'.x <= last.x /\ last.x - last'.x <= 1
             /\ last'.y <= last.y /\ last.y - last'.y <= 1 ) ]_vars

\* C11: set_lock by a caller other than the pool's admin, or on a pool with no
\* admin, returns Unauthorized and leaves the pool record unchanged; by the
\* admin it succeeds and sets the lock to new_value whatever the lock was (so
\* twice is the same as once, and Locked and Active are reachable from each
\* other).
C11_LockAuthorization ==
    last.op = "set_lock" =>
        IF last.pre_config.authority = None \/ last.user # last.pre_config.authority
        THEN last.err = "Unauthorized" /\ config = last.pre_config
        ELSE /\ last.err = "Ok"
             /\ config = [last.pre_config EXCEPT !.locked = (last.amount = 1)]

\* The Config an initialize call asked for.
Requested == last.calls[1]
IsInitializeIx == last.op = "initialize" /\ Len(last.calls) = 1

\* C12: initialize with fee_bps >= 10000 fails with InvalidFee and creates no
\* pool, and the fee stored in a pool is always at least 0 and below 10000.
C12_FeeBound ==
    /\ (IsInitializeIx /\ ~last.pre_config.initialized /\ Requested.fee >= 10000)
          => (last.err = "InvalidFee" /\ ~config.initialized)
    /\ config.initialized => (0 <= config.fee /\ config.fee < 10000)

\* C13: initialize fails, leaving the pool as it was, exactly when a pool with
\* the same (asset_x, asset_y, seed) exists; for a triple that differs in any
\* component, a different asset pair with the same seed included, it succeeds.
C13_PoolIdentity ==
    IsInitializeIx =>
        IF last.pre_config.initialized
              /\ pool_identity(last.pre_config) = pool_identity(Requested)
        THEN last.err # "Ok" /\ config = last.pre_config
        ELSE last.err = "Ok"

\* C14: on an unlocked pool a deposit with positive amount, max_x and max_y
\* that the caller can pay takes the first-deposit path whenever L = 0,
\* whatever the vaults hold, and so succeeds moving (max_x, max_y); whenever
\* L > 0 it takes the proportional path and its amounts are the curve's.
C14_DepositDispatch ==
    (last.op = "deposit" /\ ~last.pre_config.locked
        /\ last.amount > 0 /\ last.a > 0 /\ last.b > 0
        /\ last.pre.x[last.user] >= last.a /\ last.pre.y[last.user] >= last.b)
    => /\ last.pre.supply = 0 =>
             (last.err = "Ok" /\ MovedInX = last.a /\ MovedInY = last.b)
       /\ last.pre.supply > 0 =>
             /\ last.x = CeilDiv(vault_x(last.pre) * last.amount, last.pre.supply)
             /\ last.y = CeilDiv(vault_y(last.pre) * last.amount, last.pre.supply)

\* C15: on an unlocked pool with L > 0, a withdraw of shares_in > 0 by a caller
\* holding at least shares_in, with floors that the computed amounts meet,
\* succeeds: the vault debits go through (the pool authorises them), out_x and
\* out_y reach the caller and shares_in are burned from the caller.
C15_ValidWithdrawCommits ==
    (last.op = "withdraw" /\ ~last.pre_config.locked /\ FundedPre
        /\ last.amount > 0 /\ last.pre.lp[last.user] >= last.amount
        /\ Computed /\ last.a + last.b > 0 /\ last.a <= last.x /\ last.b <= last.y)
    => /\ last.err = "Ok"
       /\ last.calls[1].err = "Ok"
       /\ MovedInX = -last.x /\ MovedInY = -last.y
       /\ ledger.x[last.user] = last.pre.x[last.user] + last.x
       /\ ledger.y[last.user] = last.pre.y[last.user] + last.y
       /\ ledger.lp[last.user] = last.pre.lp[last.user] - last.amount
       /\ Minted = -last.amount

\* C16: a successful deposit into a pool with L > 0 moves exactly
\* ceil(reserve_x * amount / L) of X and ceil(reserve_y * amount / L) of Y
\* from the caller to the vaults and mints exactly amount shares to the caller.
C16_ProportionalDeposit ==
    (last.op = "deposit" /\ last.err = "Ok" /\ last.pre.supply > 0) =>
        /\ MovedInX = CeilDiv(vault_x(last.pre) * last.amount, last.pre.supply)
        /\ MovedInY = CeilDiv(vault_y(last.pre) * last.amount, last.pre.supply)
        /\ last.pre.x[last.user] - ledger.x[last.user] = MovedInX
        /\ last.pre.y[last.user] - ledger.y[last.user] = MovedInY
        /\ Minted = last.amount
        /\ ledger.lp[last.user] - last.pre.lp[last.user] = last.amount

\* C16 witness: a successful deposit into a funded pool with unequal reserves
\* whose Y amount was rounded up.
C16_Witness ==
    /\ last.op = "deposit" /\ last.err = "Ok" /\ FundedPre
    /\ vault_x(last.pre) # vault_y(last.pre)
    /\ (vault_y(last.pre) * last.amount) % last.pre.supply # 0
    /\ MovedInY > 0

\* C17: a withdraw of 0 < shares_in <= L by a holder of at least shares_in
\* (pool unlocked, floors met) pays exactly floor(reserve_x * shares_in / L)
\* and floor(reserve_y * shares_in / L) and burns exactly shares_in; with
\* shares_in = L it leaves both vaults empty.
C17_ProportionalWithdraw ==
    (last.op = "withdraw" /\ ~last.pre_config.locked /\ FundedPre
        /\ last.amount > 0 /\ last.amount <= last.pre.supply
        /\ last.pre.lp[last.user] >= last.amount
        /\ last.a + last.b > 0
        /\ last.a <= (vault_x(last.pre) * last.amount) \div last.pre.supply
        /\ last.b <= (vault_y(last.pre) * last.amount) \div last.pre.supply)
    => /\ last.err = "Ok" =>
             /\ -MovedInX = (vault_x(last.pre) * last.amount) \div last.pre.supply
             /\ -MovedInY = (vault_y(last.pre) * last.amount) \div last.pre.supply
             /\ -Minted = last.amount
       /\ last.amount = last.pre.supply =>
             (vault_x(ledger) = 0 /\ vault_y(ledger) = 0 /\ ledger.supply = 0)

\* The proportional amounts of the last deposit or withdraw, before any
\* narrowing to the width of an amount.
ExactX ==
    IF last.op = "deposit" THEN CeilDiv(vault_x(last.pre) * last.amount, last.pre.supply)
    ELSE (vault_x(last.pre) * last.amount) \div last.pre.supply
ExactY ==
    IF last.op = "deposit" THEN CeilDiv(vault_y(last.pre) * last.amount, last.pre.supply)
    ELSE (vault_y(last.pre) * last.amount) \div last.pre.supply

\* C18: a proportional deposit or a withdraw (pool unlocked and funded,
\* arguments valid) one of whose computed amounts does not fit the width of an amount fails
\* with Overflow and changes nothing, and a successful one moves exactly the
\* computed amounts, neither truncated nor wrapped.
C18_OverflowPolicy ==
    (IsUserOp /\ ~last.pre_config.locked /\ FundedPre /\ last.amount > 0
        /\ (last.op = "withdraw" => last.a + last.b > 0))
    => /\ (ExactX > U64_MAX \/ ExactY > U64_MAX)
             => (last.err = "Overflow" /\ Unchanged)
       /\ last.err = "Ok" =>
             /\ ExactX <= U64_MAX /\ ExactY <= U64_MAX
             /\ (IF MovedInX >= 0 THEN MovedInX ELSE -MovedInX) = ExactX
             /\ (IF MovedInY >= 0 THEN MovedInY ELSE -MovedInY) = ExactY

\* C19: once a pool is initialized, the LP mint that deposit and withdraw
\* require is the mint initialize created, and so a deposit into the fresh
\* pool that hands in that mint, with positive amount, max_x and max_y the
\* caller can pay, succeeds and mints the shares.
C19_LpShareIdentity ==
    (last.op = "deposit" /\ ~last.pre_config.locked
        /\ last.lp_mint \in MintAccounts(last.pre_config)
        /\ last.pre.supply = 0 /\ vault_x(last.pre) = 0 /\ vault_y(last.pre) = 0
        /\ last.amount > 0 /\ last.a > 0 /\ last.b > 0
        /\ last.pre.x[last.user] >= last.a /\ last.pre.y[last.user] >= last.b)
    => /\ lp_mint_address_deposit(config_address(config.seed)) = last.lp_mint
       /\ lp_mint_address_withdraw(config_address(config.seed)) = last.lp_mint
       /\ last.err = "Ok"
       /\ Minted = last.amount

\* Sum of f over the set S.
RECURSIVE SumOver(_, _)
SumOver(f, S) ==
    IF S = {} THEN 0
    ELSE LET e == CHOOSE e \in S : TRUE IN f[e] + SumOver(f, S \ {e})

\* C20: for each asset the vault balance plus all users' balances stays what it
\* was at the start, the LP supply equals the sum of the users' LP balances,
\* and a deposit or withdraw leaves the pool record as it was and changes the
\* LP supply by +amount (successful deposit), -amount (successful withdraw)
\* or not at all (failed).
C20_Conservation ==
    /\ SumOver(ledger.x, Accounts) = SumOver(InitLedger.x, Accounts)
    /\ SumOver(ledger.y, Accounts) = SumOver(InitLedger.y, Accounts)
    /\ ledger.supply = SumOver(ledger.lp, Users)
    /\ IsUserOp =>
          /\ config = last.pre_config
          /\ Minted = (IF last.err # "Ok" THEN 0
                       ELSE IF last.op = "deposit" THEN last.amount
                       ELSE -last.amount)

\* C20 witness: a second user's successful deposit into a funded pool, so that
\* both users hold shares and the vaults hold both users' assets.
C20_Witness ==
    /\ last.op = "deposit" /\ last.err = "Ok" /\ FundedPre
    /\ \A u \in Users : ledger.lp[u] > 0
    /\ last.x > 0 /\ last.y > 0 /\ last.x # last.amount

====
